---------------------------- MODULE Spec2Model ----------------------------
(***************************************************************************)
(* A model of video-understanding.ipynb run top to bottom ("Run all"):     *)
(* the frame extraction cell, the analysis cell (client construction,      *)
(* request construction, the chat completion call) and the cost analysis   *)
(* cell.  An exception raised in a cell ends the run.                      *)
(***************************************************************************)
EXTENDS Integers, Sequences, FiniteSets

VARIABLES
    file,           \* the video file on disk: openable, nframes, fps
    env_endpoint,   \* the environment's AZURE_OPENAI_ENDPOINT, or None
    target_fps,     \* the configured frame extraction rate
    pc,             \* the statement the run is at
    error,          \* the exception that ended the run, or "none"
    video,          \* the cv2.VideoCapture object: opened, pos
    fps,            \* video.get(cv2.CAP_PROP_FPS)
    frame_skip,
    base64Frames,
    frame_count,
    release_calls,  \* how many times video.release() has run
    stdout,         \* the lines printed so far, by label
    detail,
    client,
    messages,
    requests,       \* the requests handed to chat.completions.create
    completion,
    costs           \* the names the cost analysis cell has bound or printed

vars == <<file, env_endpoint, target_fps, pc, error, video, fps, frame_skip,
          base64Frames, frame_count, release_calls, stdout, detail, client,
          messages, requests, completion, costs>>

-----------------------------------------------------------------------------
(* Bounds of the model *)

MaxFrames == 5
MaxFpsNum == 4
MaxTargetNum == 2
MaxTokens == 2

-----------------------------------------------------------------------------
(* Values *)

None == "None"

\* A rate or an amount of money is a Python float; the model keeps it as an
\* exact fraction.
Rat(n, d) == [num |-> n, den |-> d]

\* Whole and half units: the README sets target_fps = 0.5 as well as 1 and 2.
RateDens == {1, 2}

NativeRates == {Rat(n, d) : n \in 0..MaxFpsNum, d \in RateDens}

TargetRates == {Rat(n, d) : n \in 1..MaxTargetNum, d \in RateDens}

DetailLevels == {"low", "high"}

Max(a, b) == IF a >= b THEN a ELSE b

\* a // b on non-negative floats, then int(...)
FloorDiv(a, b) == (a.num * b.den) \div (a.den * b.num)

\* A file that cannot be opened has no frames to give.
MissingFile == [openable |-> FALSE, nframes |-> 0, fps |-> Rat(0, 1)]

\* The README's example: a 30-second clip, read here at 30 native fps.
ExampleFile == [openable |-> TRUE, nframes |-> 900, fps |-> Rat(30, 1)]

Files ==
    {MissingFile}
    \cup {[openable |-> TRUE, nframes |-> n, fps |-> r] :
            n \in 0..MaxFrames, r \in NativeRates}

Endpoints == {None, "https://your-resource.openai.azure.com/"}

\* The raw image video.read() gives for frame i of the file.
RawFrame(i) == [index |-> i]

\* cv2.imencode(".jpg", frame)
ImEncode(frame) == [fmt |-> ".jpg", raw |-> frame]

\* base64.b64encode(buffer).decode("utf-8")
B64Encode(buffer) == [enc |-> "base64", data |-> buffer]

\* f"data:image/jpeg;base64,{frame}"
DataUrl(frame) == [prefix |-> "data:image/jpeg;base64,", payload |-> frame]

\* A Python set display {x}; a plain string would carry pytype "str".
PySet(S) == [pytype |-> "set", val |-> S]

Append2(s, a, b) == Append(Append(s, a), b)

-----------------------------------------------------------------------------
(* Frame extraction cell *)

\* A faulty variant: the quotient rounded up past the floor.
FrameSkipOffByOne(native, target) == Max(1, FloorDiv(native, target) + 1)

\* frame_skip = max(1, int(fps // target_fps))
FrameSkip(native, target) == Max(1, FloorDiv(native, target))

\* A faulty variant: the selection shifted by one frame.
ShouldSampleShifted(count, skip) == (count + 1) % skip = 0

\* if frame_count % frame_skip == 0
ShouldSample(count, skip) == count % skip = 0

\* video = cv2.VideoCapture(path) ... frame_count = 0.  VideoCapture does not
\* raise on a file it cannot open: the object is simply not opened, and its
\* FPS property reads 0.0.
OpenVideo ==
    /\ pc = "extract"
    /\ video' = [opened |-> file.openable, pos |-> 0]
    /\ fps' = IF file.openable THEN file.fps ELSE Rat(0, 1)
    /\ stdout' = Append(stdout, "Video FPS")
    /\ frame_skip' = FrameSkip(fps', target_fps)
    /\ base64Frames' = <<>>
    /\ frame_count' = 0
    /\ pc' = "loop"
    /\ UNCHANGED <<file, env_endpoint, target_fps, error, release_calls, detail,
                   client, messages, requests, completion, costs>>

\* while video.isOpened(): false on entry for a file that did not open.
LoopNotOpened ==
    /\ pc = "loop"
    /\ ~video.opened
    /\ pc' = "release"
    /\ UNCHANGED <<file, env_endpoint, target_fps, error, video, fps, frame_skip,
                   base64Frames, frame_count, release_calls, stdout, detail,
                   client, messages, requests, completion, costs>>

\* success, frame = video.read(); if not success: break.  read() gives False
\* at the end of the stream, and also for a frame it cannot decode.
ReadBreak ==
    /\ pc = "loop"
    /\ video.opened
    /\ pc' = "release"
    /\ UNCHANGED <<file, env_endpoint, target_fps, error, video, fps, frame_skip,
                   base64Frames, frame_count, release_calls, stdout, detail,
                   client, messages, requests, completion, costs>>

\* One iteration of the loop body on a frame that was read.
ReadFrame ==
    /\ pc = "loop"
    /\ video.opened
    /\ video.pos < file.nframes
    /\ video' = [video EXCEPT !.pos = @ + 1]
    /\ base64Frames' =
          IF ShouldSample(frame_count, frame_skip)
          THEN Append(base64Frames, B64Encode(ImEncode(RawFrame(video.pos))))
          ELSE base64Frames
    /\ frame_count' = frame_count + 1
    /\ UNCHANGED <<file, env_endpoint, target_fps, pc, error, fps, frame_skip,
                   release_calls, stdout, detail, client, messages, requests,
                   completion, costs>>

\* The frame is read and selected, and cv2.imencode (or the append) raises:
\* nothing catches it, the cell ends there.
EncodeRaises ==
    /\ pc = "loop"
    /\ video.opened
    /\ video.pos < file.nframes
    /\ ShouldSample(frame_count, frame_skip)
    /\ video' = [video EXCEPT !.pos = @ + 1]
    /\ pc' = "error"
    /\ error' = "cv2.error"
    /\ UNCHANGED <<file, env_endpoint, target_fps, fps, frame_skip, base64Frames,
                   frame_count, release_calls, stdout, detail, client, messages,
                   requests, completion, costs>>

\* video.release() and the two prints that end the cell.
ReleaseVideo ==
    /\ pc = "release"
    /\ video' = [video EXCEPT !.opened = FALSE]
    /\ release_calls' = release_calls + 1
    /\ stdout' = Append2(stdout, "frames extracted", "Total frames processed")
    /\ pc' = "configure"
    /\ UNCHANGED <<file, env_endpoint, target_fps, error, fps, frame_skip,
                   base64Frames, frame_count, detail, client, messages, requests,
                   completion, costs>>

-----------------------------------------------------------------------------
(* Analysis cell *)

\* A faulty variant: a client that takes a missing endpoint.
ClientAcceptsAnything(endpoint) == FALSE

\* AzureOpenAI(azure_endpoint=endpoint, ...) raises ValueError when it is given
\* no endpoint and the environment holds none either.
ClientRejects(endpoint) == endpoint = None

\* The first element of "content".
TextPart ==
    [type |-> "text",
     text |-> "These are frames from a video. Please describe what happens in the video."]

\* One element of the list comprehension.  "detail": {detail} is a set display:
\* it builds a one-element set holding the detail string.
ImagePart(frame, d) ==
    [type |-> "image_url",
     image_url |-> [url |-> DataUrl(frame), detail |-> PySet({d})]]

\* A faulty variant: the frames reversed and the text last.
ImagesThenText(frames, d) ==
    [k \in 1..Len(frames) |-> ImagePart(frames[Len(frames) + 1 - k], d)] \o <<TextPart>>

\* "content": [ {text}, *[ {image_url} for frame in base64Frames ] ]
Content(frames, d) ==
    <<TextPart>> \o [k \in 1..Len(frames) |-> ImagePart(frames[k], d)]

\* endpoint = os.getenv(...), deployment, detail, token_provider, client
ConfigureClient ==
    /\ pc = "configure"
    /\ \E d \in DetailLevels : detail' = d
    /\ IF ClientRejects(env_endpoint)
       THEN /\ pc' = "error"
            /\ error' = "ValueError"
            /\ client' = client
       ELSE /\ pc' = "build"
            /\ error' = error
            /\ client' = [azure_endpoint |-> env_endpoint,
                          api_version |-> "2025-01-01-preview"]
    /\ UNCHANGED <<file, env_endpoint, target_fps, video, fps, frame_skip,
                   base64Frames, frame_count, release_calls, stdout, messages,
                   requests, completion, costs>>

\* messages = [ {"role": "user", "content": [...]} ]
BuildRequest ==
    /\ pc = "build"
    /\ messages' = <<[role |-> "user", content |-> Content(base64Frames, detail)]>>
    /\ pc' = "create"
    /\ UNCHANGED <<file, env_endpoint, target_fps, error, video, fps, frame_skip,
                   base64Frames, frame_count, release_calls, stdout, detail,
                   client, requests, completion, costs>>

\* What the call is given.
Request == [model |-> "gpt-4.1", messages |-> messages]

\* The usage counts a completion may carry.
Usages ==
    {[prompt_tokens |-> i, completion_tokens |-> o] :
        i \in 0..MaxTokens, o \in 0..MaxTokens}
    \cup {[prompt_tokens |-> 5100, completion_tokens |-> 300]}

\* completion = client.chat.completions.create(...) returns, and its content
\* is printed.
CreateReturns ==
    /\ pc = "create"
    /\ requests' = Append(requests, Request)
    /\ \E u \in Usages : completion' = [usage |-> u]
    /\ stdout' = Append(stdout, "completion content")
    /\ pc' = "cost"
    /\ UNCHANGED <<file, env_endpoint, target_fps, error, video, fps, frame_skip,
                   base64Frames, frame_count, release_calls, detail, client,
                   messages, costs>>

\* The call raises (authentication, the network, the service's answer).
CreateRaises ==
    /\ pc = "create"
    /\ requests' = Append(requests, Request)
    /\ pc' = "error"
    /\ error' = "APIError"
    /\ UNCHANGED <<file, env_endpoint, target_fps, video, fps, frame_skip,
                   base64Frames, frame_count, release_calls, stdout, detail,
                   client, messages, completion, costs>>

-----------------------------------------------------------------------------
(* Cost analysis cell *)

Million == 1000000
InputPrice == 2
OutputPrice == 8

RECURSIVE GCD(_, _)
GCD(a, b) == IF b = 0 THEN a ELSE GCD(b, a % b)

\* The float n / d, kept in lowest terms; d = 0 gives the values no division
\* returns (inf, nan).
Frac(n, d) ==
    LET g == GCD(n, d)
    IN  IF g = 0 THEN Rat(0, 0) ELSE Rat(n \div g, d \div g)

FracMul(a, k) == Frac(a.num * k, a.den)

\* a + b over the least common denominator
FracAdd(a, b) ==
    LET g == GCD(a.den, b.den)
    IN  Frac(a.num * (b.den \div g) + b.num * (a.den \div g), (a.den \div g) * b.den)

FracDiv(a, n) == Frac(a.num, a.den * n)

\* A faulty variant: input tokens billed at the output price.
InputCostAtOutputPrice(tokens) == FracMul(Frac(tokens, Million), OutputPrice)

\* input_cost = input_tokens / 1_000_000 * 2
InputCost(tokens) == FracMul(Frac(tokens, Million), InputPrice)

\* output_cost = output_tokens / 1_000_000 * 8
OutputCost(tokens) == FracMul(Frac(tokens, Million), OutputPrice)

\* A faulty variant: a division that returns on a zero divisor.
NeverRaises(n) == FALSE

\* total_cost / len(base64Frames) raises ZeroDivisionError on an empty list.
DivisionRaises(n) == n = 0

\* The whole cell: the costs are bound, token usage and the cost breakdown are
\* printed, and the last print divides by the number of frames.
CostAnalysis ==
    /\ pc = "cost"
    /\ LET input_tokens == completion.usage.prompt_tokens
           output_tokens == completion.usage.completion_tokens
           input_cost == InputCost(input_tokens)
           output_cost == OutputCost(output_tokens)
           total_cost == FracAdd(input_cost, output_cost)
           bound == [input_cost |-> input_cost, output_cost |-> output_cost,
                     total_cost |-> total_cost]
           frames == Len(base64Frames)
       IN  IF DivisionRaises(frames)
           THEN /\ costs' = bound
                /\ stdout' = Append2(stdout, "Token Usage", "Cost Breakdown")
                /\ pc' = "error"
                /\ error' = "ZeroDivisionError"
           ELSE /\ costs' = [input_cost |-> input_cost, output_cost |-> output_cost,
                             total_cost |-> total_cost,
                             cost_per_frame |-> FracDiv(total_cost, frames)]
                /\ stdout' = Append(Append2(stdout, "Token Usage", "Cost Breakdown"),
                                    "Cost per frame")
                /\ pc' = "done"
                /\ error' = error
    /\ UNCHANGED <<file, env_endpoint, target_fps, video, fps, frame_skip,
                   base64Frames, frame_count, release_calls, detail, client,
                   messages, requests, completion>>

-----------------------------------------------------------------------------
(* The run *)

\* The notebook as shipped reads dash-cam-sample.mov at target_fps = 1; the
\* model also runs it on every small file at every small rate.
Inputs ==
    (Files \X TargetRates) \cup {<<ExampleFile, Rat(1, 1)>>}

Init ==
    /\ \E in \in Inputs : file = in[1] /\ target_fps = in[2]
    /\ env_endpoint \in Endpoints
    /\ pc = "extract"
    /\ error = "none"
    /\ video = [opened |-> FALSE, pos |-> 0]
    /\ fps = None
    /\ frame_skip = None
    /\ base64Frames = <<>>
    /\ frame_count = 0
    /\ release_calls = 0
    /\ stdout = <<>>
    /\ detail = None
    /\ client = None
    /\ messages = <<>>
    /\ requests = <<>>
    /\ completion = None
    /\ costs = [n \in {} |-> None]

Next ==
    \/ OpenVideo
    \/ LoopNotOpened
    \/ ReadBreak
    \/ ReadFrame
    \/ EncodeRaises
    \/ ReleaseVideo
    \/ ConfigureClient
    \/ BuildRequest
    \/ CreateReturns
    \/ CreateRaises
    \/ CostAnalysis

Spec == Init /\ [][Next]_vars

-----------------------------------------------------------------------------
(* What the claims speak of *)

\* The sampling loop has ended by its own exit (break, or a capture that is
\* not opened), not by an exception.
SamplingEnded ==
    \/ pc \in {"release", "configure", "build", "create", "cost", "done"}
    \/ pc = "error" /\ error # "cv2.error"

\* The loop ended at the end of the stream: every frame of the file was read.
EndOfStream == SamplingEnded /\ video.pos = file.nframes

\* The loop ended on a read that failed before the end of the stream.
DecodeFailed == SamplingEnded /\ file.openable /\ video.pos < file.nframes

\* The original index of the frame an element of base64Frames holds.
FrameIndex(encoded) == encoded.data.raw.index

\* max(1, floor(native / target)), with the floor as the integer s such that
\* s <= native / target < s + 1.
Stride(native, target) ==
    LET n == native.num * target.den
        d == native.den * target.num
    IN  Max(1, CHOOSE s \in 0..n : s * d <= n /\ n < (s + 1) * d)

CeilDiv(a, b) == (a + b - 1) \div b

Printed(label) == \E k \in 1..Len(stdout) : stdout[k] = label

\* The float x is n / d (x in lowest terms).
IsFraction(x, n, d) ==
    /\ x.den > 0
    /\ d % x.den = 0
    /\ n = x.num * (d \div x.den)

ExampleUsage == [prompt_tokens |-> 5100, completion_tokens |-> 300]

-----------------------------------------------------------------------------
(* Claims *)

\* C1: for a video that opens, the sampler emits exactly the frames whose
\* original index is a multiple of stride = max(1, floor(native_fps /
\* target_fps)) among the frames read so far: the k-th emitted frame is frame
\* (k-1)*stride, each lies below the number of frames read, and the next
\* multiple does not; so the indices are strictly increasing and none is
\* emitted twice.  At the end of the stream the frames read are all N frames
\* of the file.
C1_SampledAreStrideMultiples ==
    (pc # "extract" /\ file.openable) =>
        LET stride == Stride(file.fps, target_fps)
            n == Len(base64Frames)
        IN  /\ frame_skip = stride
            /\ \A k \in 1..n : FrameIndex(base64Frames[k]) = (k - 1) * stride
            /\ \A k \in 1..(n - 1) :
                   FrameIndex(base64Frames[k]) < FrameIndex(base64Frames[k + 1])
            /\ (n - 1) * stride < frame_count \/ n = 0
            /\ n * stride >= frame_count
            /\ EndOfStream => frame_count = file.nframes

C1_Witness ==
    /\ EndOfStream
    /\ file.nframes >= 5
    /\ frame_skip = 2
    /\ Len(base64Frames) = 3

\* C2: the computed stride is max(1, floor(native_fps / target_fps)), so at
\* least 1 also when target_fps exceeds native_fps; when the loop ends the
\* number of sampled frames is ceil(frames processed / stride), and at the end
\* of the stream the frames processed are all frames of the file; 900 frames
\* at 30 fps with target_fps = 1 give 30 frames, indices 0, 30, ..., 870.
C2_StrideAndCount ==
    /\ pc # "extract" =>
           /\ frame_skip >= 1
           /\ frame_skip = Stride(fps, target_fps)
    /\ SamplingEnded => Len(base64Frames) = CeilDiv(frame_count, frame_skip)
    /\ EndOfStream => Len(base64Frames) = CeilDiv(file.nframes, frame_skip)
    /\ (EndOfStream /\ file = ExampleFile /\ target_fps = Rat(1, 1)) =>
           /\ Len(base64Frames) = 30
           /\ \A k \in 1..30 : FrameIndex(base64Frames[k]) = 30 * (k - 1)

C2_Witness ==
    /\ EndOfStream
    /\ file = ExampleFile
    /\ target_fps = Rat(1, 1)
    /\ Len(base64Frames) = 30

\* C3: the request that is built, and the one that is submitted, holds the
\* text instruction first and then exactly one image reference per sampled
\* frame, in the order of the sampled frames, which is ascending original
\* frame index.
C3_RequestMirrorsSampledFrames ==
    /\ Len(messages) > 0 =>
          LET content == messages[1].content
          IN  /\ Len(messages) = 1
              /\ content[1].type = "text"
              /\ Len(content) = 1 + Len(base64Frames)
              /\ \A k \in 1..Len(base64Frames) :
                     /\ content[k + 1].type = "image_url"
                     /\ content[k + 1].image_url.url.payload = base64Frames[k]
              /\ \A k \in 2..(Len(content) - 1) :
                     FrameIndex(content[k].image_url.url.payload)
                       < FrameIndex(content[k + 1].image_url.url.payload)
    /\ \A r \in 1..Len(requests) : requests[r].messages = messages

C3_Witness ==
    /\ Len(requests) = 1
    /\ Len(base64Frames) >= 3

\* C4: every image reference of the request carries the detail level as a
\* plain value from {low, high}, not a collection, and all image references
\* carry the same one.
C4_DetailIsPlainEnum ==
    Len(messages) > 0 =>
        LET content == messages[1].content
        IN  \A k \in 2..Len(content) :
                /\ content[k].image_url.detail.pytype = "str"
                /\ content[k].image_url.detail.val \in DetailLevels
                /\ content[k].image_url.detail = content[2].image_url.detail

\* C5: when the video file cannot be opened the run fails at once with no
\* partial output: no frame count is reported, no request is built or
\* submitted, no cost is reported.
C5_UnopenedFileAborts ==
    ~file.openable =>
        /\ ~Printed("frames extracted")
        /\ Len(messages) = 0
        /\ Len(requests) = 0
        /\ ~Printed("Cost Breakdown")
        /\ pc # "done"

\* C6, as stated: with the endpoint configuration absent the run fails before
\* any frame is read or encoded.
C6_FailsBeforeAnyFrame ==
    env_endpoint = None =>
        /\ video.pos = 0
        /\ Len(base64Frames) = 0

\* C6, amended: with the endpoint configuration absent no client is
\* constructed and no request is ever built or submitted; the run gets no
\* further than client construction, whose ValueError comes only after frame
\* sampling has finished and its frame counts are printed.
C6_FailsAtClientConstruction ==
    env_endpoint = None =>
        /\ pc \notin {"build", "create", "cost", "done"}
        /\ client = None
        /\ Len(messages) = 0
        /\ Len(requests) = 0
        /\ error \in {"none", "cv2.error", "ValueError"}
        /\ error = "ValueError" =>
               /\ pc = "error"
               /\ release_calls = 1
               /\ Printed("frames extracted")

C6_Witness ==
    /\ env_endpoint = None
    /\ error = "ValueError"
    /\ video.pos >= 3
    /\ Len(base64Frames) >= 2

\* C7: with zero frames sampled the cost analysis ends in an error and no
\* cost-per-frame value is ever computed or printed.
C7_ZeroFramesNoCostPerFrame ==
    Len(base64Frames) = 0 =>
        /\ "cost_per_frame" \notin DOMAIN costs
        /\ ~Printed("Cost per frame")
        /\ pc # "done"
        /\ DOMAIN costs # {} => pc = "error" /\ error = "ZeroDivisionError"

C7_Witness ==
    /\ Len(base64Frames) = 0
    /\ DOMAIN costs # {}
    /\ error = "ZeroDivisionError"

\* C8: input_cost = input_tokens * 2 / 1,000,000, output_cost = output_tokens
\* * 8 / 1,000,000, total_cost is their sum and, with frame_count > 0,
\* cost_per_frame = total_cost / frame_count; 5100 and 300 tokens over 30
\* frames give 0.0102, 0.0024, 0.0126 and 0.00042.
C8_CostArithmetic ==
    DOMAIN costs # {} =>
        LET i == completion.usage.prompt_tokens
            o == completion.usage.completion_tokens
            n == Len(base64Frames)
        IN  /\ IsFraction(costs.input_cost, i * 2, 1000000)
            /\ IsFraction(costs.output_cost, o * 8, 1000000)
            /\ IsFraction(costs.total_cost, i * 2 + o * 8, 1000000)
            /\ n > 0 =>
                   /\ pc = "done"
                   /\ IsFraction(costs.cost_per_frame, i * 2 + o * 8, 1000000 * n)
            /\ (completion.usage = ExampleUsage /\ n = 30) =>
                   /\ IsFraction(costs.input_cost, 102, 10000)
                   /\ IsFraction(costs.output_cost, 24, 10000)
                   /\ IsFraction(costs.total_cost, 126, 10000)
                   /\ IsFraction(costs.cost_per_frame, 42, 100000)

C8_Witness ==
    /\ pc = "done"
    /\ completion.usage = ExampleUsage
    /\ Len(base64Frames) = 30
    /\ "cost_per_frame" \in DOMAIN costs

\* C9: on every exit from frame sampling, an exception while a frame is read
\* or encoded included, the capture that was opened has been released exactly
\* once.
C9_HandleReleasedOnce ==
    (file.openable /\ pc \notin {"extract", "loop", "release"}) =>
        release_calls = 1

\* C10: a read that fails before the end of the stream is fatal: the run
\* ends in an error and no request is submitted for the frames sampled so far.
C10_DecodeFailureIsFatal ==
    DecodeFailed =>
        /\ Len(requests) = 0
        /\ pc \notin {"cost", "done"}

=============================================================================
